---- MODULE Spec2Model ----
(***************************************************************************)
(* Model of vibecode-jigsaw: the jigsaw cut generator (gen_jigsaw.py) and  *)
(* the piece extractor (jigsaw_piece_extractor.py).                        *)
(*                                                                         *)
(* Rasters and masks are sets of pixels <<x, y>>: a cut raster is the set  *)
(* of its black pixels, a mask the set of its nonzero pixels, the          *)
(* allocation map the set of pixels marked 1.                              *)
(***************************************************************************)
EXTENDS Integers, Sequences, FiniteSets, TLC

(***************************************************************************)
(* Bounds of the model.                                                    *)
(***************************************************************************)
MaxImgW == 2
MaxImgH == 2
MaxN == 3
MaxSeed == 2
MaxCalls == 2
MaxTarget == 5

(***************************************************************************)
(* Program constants.                                                      *)
(***************************************************************************)
DefaultGrid == 4
DefaultWidth == 300
DefaultHeight == 200
Margin == 5
Padding == 30

(***************************************************************************)
(* State of one run of extract_puzzle_pieces.                              *)
(***************************************************************************)
VARIABLES
    pc,              \* position in extract_puzzle_pieces
    svg_file,        \* the path document given
    input_image,     \* the image file given: [ok, width, height]
    debug,           \* the debug flag
    fixed_size,      \* the fixed_size flag
    output_width, output_height,
    grid,            \* <<cols, rows, svg_width, svg_height>>
    img_width, img_height,
    row, col,        \* the loop indexes
    cut_masks,       \* the entries of cut_masks not yet applied
    direction,       \* the direction last applied
    cut_line,        \* the black pixels of the raster last loaded
    discard_pixels,  \* the pixels the last reduction discards
    piece_mask,      \* the mask being reduced
    piece_masks,     \* (row, col) -> keep-mask
    allocation_map,
    final_masks,     \* (row, col) -> final mask
    piece_images,    \* (row, col) -> padded bounding box of the cropped piece
    saved,           \* (row, col) -> the image written to the output folder
    temp_dir         \* whether the temporary directory exists

\* The arguments of the fixed-size output.
size_args == <<fixed_size, output_width, output_height>>

evars == <<pc, svg_file, input_image, debug, size_args, grid, img_width, img_height,
           row, col, cut_masks, direction, cut_line, discard_pixels,
           piece_mask, piece_masks, allocation_map, final_masks,
           piece_images, saved, temp_dir>>

(***************************************************************************)
(* State of the generator: two JigsawGenerator objects built with the same *)
(* arguments, and the state of Python's random module.                     *)
(***************************************************************************)
VARIABLES
    self,            \* object -> its fields
    call,            \* object -> the generate_svg() call in progress
    returned,        \* object -> the documents generate_svg() returned
    tabs,            \* object -> per call, the tab state at every cell
    py_random        \* the module-level generator: [seed, drawn]

gvars == <<self, call, returned, tabs, py_random>>

vars == <<evars, gvars>>

Pixels == (0 .. (img_width - 1)) \X (0 .. (img_height - 1))

Min(S) == CHOOSE m \in S : \A n \in S : m <= n
Max(S) == CHOOSE m \in S : \A n \in S : m >= n
Range(s) == {s[i] : i \in 1 .. Len(s)}

(***************************************************************************)
(* Path documents.  A document is its root attributes and the list of its  *)
(* path elements; the d attribute of a path is a sequence of tokens, each  *)
(* a tuple <<command, coordinates...>>.  The text "M " occurs in d exactly *)
(* at the M tokens.                                                        *)
(***************************************************************************)
MTok == <<"M", 0, 0>>
CTok == <<"C", 0, 0, 0, 0, 0, 0>>

RECURSIVE SubPaths(_)
SubPaths(n) == IF n = 0 THEN <<>> ELSE <<MTok, CTok>> \o SubPaths(n - 1)

PathElem(stroke, has_d, d) == [stroke |-> stroke, has_d |-> has_d, d |-> d]

MkDoc(xml_ok, xmlns, viewBox, size, paths) ==
    [xml_ok |-> xml_ok, xmlns |-> xmlns, viewBox |-> viewBox,
     size |-> size, paths |-> paths]

\* A document with the structure generate_svg() gives for xn columns, yn rows.
ShapeDoc(xn, yn) ==
    MkDoc(TRUE, TRUE, <<0, 0, 100, 50>>, <<100, 50>>,
          << PathElem("Black", TRUE, SubPaths(yn - 1)),
             PathElem("Black", TRUE, SubPaths(xn - 1)),
             PathElem("Black", TRUE, <<MTok, <<"L", 0, 0>>, <<"A", 0, 0>>>>) >>)

\* <<xn, yn>>: the grids with an inner piece, and those of one row or column.
InnerShapes == {<<3, 3>>, <<3, 4>>}
LineShapes == {<<1, 1>>, <<2, 1>>, <<1, 2>>}

\* Documents the generator does not produce.
TwoPathDoc ==
    MkDoc(TRUE, TRUE, <<0, 0, 100, 50>>, <<100, 50>>,
          << PathElem("Black", TRUE, SubPaths(1)),
             PathElem("Black", TRUE, SubPaths(1)) >>)
NoDataDoc ==
    MkDoc(TRUE, FALSE, <<>>, <<>>,
          << PathElem("Black", FALSE, <<>>),
             PathElem("Black", FALSE, <<>>),
             PathElem("Black", FALSE, <<>>) >>)
BrokenDoc == MkDoc(FALSE, TRUE, <<>>, <<>>, <<>>)
RecolouredDoc ==
    MkDoc(TRUE, TRUE, <<>>, <<100, 50>>,
          << PathElem("Red", TRUE, SubPaths(0)),
             PathElem("Black", TRUE, SubPaths(2)),
             PathElem("Black", TRUE, SubPaths(2)) >>)

OtherDocs == {TwoPathDoc, NoDataDoc, BrokenDoc, RecolouredDoc}

(***************************************************************************)
(* Extractor: reading the document.                                        *)
(***************************************************************************)
\* What an operator yields when the function it models raises.
RaiseDims == <<>>

Lower(s) == CASE s = "Black" -> "black"
              [] s = "Red" -> "red"
              [] OTHER -> s

\* get_svg_dimensions: ET.parse raises on a document that is not XML.
get_svg_dimensions(doc) ==
    IF ~doc.xml_ok THEN RaiseDims
    ELSE IF doc.viewBox # <<>> THEN <<doc.viewBox[3], doc.viewBox[4]>>
    ELSE IF doc.size # <<>> THEN doc.size
    ELSE <<DefaultWidth, DefaultHeight>>

\* root.findall('.//svg:path', ns), then root.findall('.//path') when the
\* first finds fewer than 3.
FindPaths(doc) ==
    LET namespaced == IF doc.xmlns THEN doc.paths ELSE <<>>
        plain == IF doc.xmlns THEN <<>> ELSE doc.paths
    IN  IF Len(namespaced) < 3 THEN plain ELSE namespaced

\* The stroke loop of determine_grid_size: hv = <<h_path, v_path>> as indexes
\* into paths, 0 for None.
RECURSIVE StrokeLoop(_, _, _)
StrokeLoop(paths, i, hv) ==
    IF i > Len(paths) THEN hv
    ELSE LET stroke == Lower(paths[i].stroke)
         IN  IF stroke = "darkblue" \/ (hv[1] = 0 /\ stroke = "black")
                 THEN StrokeLoop(paths, i + 1, <<i, hv[2]>>)
             ELSE IF stroke = "darkred"
                        \/ (hv[2] = 0 /\ hv[1] # 0 /\ stroke = "black")
                 THEN StrokeLoop(paths, i + 1, <<hv[1], i>>)
             ELSE StrokeLoop(paths, i + 1, hv)

\* str.count('M '): the number of M tokens of a d attribute.
CountM(d) == Cardinality({i \in 1 .. Len(d) : d[i][1] = "M"})

\* A faulty variant: the dividers are counted, not the cells.
GridCountDividers(d) == CountM(d)

\* rows = h_dividers + 1, cols = v_dividers + 1
GridCount(d) == CountM(d) + 1

determine_grid_size(doc) ==
    IF ~doc.xml_ok THEN <<DefaultGrid, DefaultGrid, DefaultWidth, DefaultHeight>>
    ELSE LET paths == FindPaths(doc) IN
         IF Len(paths) < 3 THEN <<DefaultGrid, DefaultGrid>>
         ELSE LET hv0 == StrokeLoop(paths, 1, <<0, 0>>)
                  h == IF hv0[1] = 0 THEN 1 ELSE hv0[1]
                  v == IF hv0[2] = 0 THEN 2 ELSE hv0[2]
                  rows == IF paths[h].has_d THEN GridCount(paths[h].d)
                          ELSE DefaultGrid
                  cols == IF paths[v].has_d THEN GridCount(paths[v].d)
                          ELSE DefaultGrid
                  dims == get_svg_dimensions(doc)
              IN  <<cols, rows, dims[1], dims[2]>>

\* re.findall(r'<path[^>]*d="([^"]*)"[^>]*>', svg_content): the d attributes
\* of the path elements that have one.
RECURSIVE RegexPaths(_)
RegexPaths(paths) ==
    IF paths = <<>> THEN <<>>
    ELSE (IF Head(paths).has_d THEN <<Head(paths).d>> ELSE <<>>)
             \o RegexPaths(Tail(paths))

\* d.split('M ') without the blank pieces: one segment per M token, holding
\* the token's coordinates and the tokens up to the next M; tokens before
\* the first M make a segment of their own.
RECURSIVE SplitM(_)
SplitM(d) ==
    IF d = <<>> THEN <<>>
    ELSE LET front == SplitM(SubSeq(d, 1, Len(d) - 1))
             last == d[Len(d)]
         IN  IF last[1] = "M" THEN Append(front, <<last>>)
             ELSE IF front = <<>> THEN <<<<last>>>>
             ELSE [front EXCEPT ![Len(front)] = Append(@, last)]

CutSvg(kind, index, segment) ==
    [kind |-> kind, index |-> index, segment |-> segment]
NoCut == CutSvg("none", -1, <<>>)
RaiseCut == CutSvg("raise", -1, <<>>)

\* A faulty variant: 'above' looks up the sub-path of the row itself.
create_horizontal_cut_svg_row(doc, r, rows, dir) ==
    IF get_svg_dimensions(doc) = RaiseDims THEN RaiseCut
    ELSE LET paths == RegexPaths(doc.paths) IN
         IF Len(paths) < 3 THEN NoCut
         ELSE LET h_segments == SplitM(paths[1])
                  segment_index ==
                      IF dir = "above" /\ r > 0 THEN r
                      ELSE IF dir = "below" /\ r < rows - 1 THEN r
                      ELSE -1
              IN  IF segment_index = -1 THEN NoCut
                  ELSE IF segment_index < Len(h_segments)
                      THEN CutSvg("h", segment_index, h_segments[segment_index + 1])
                  ELSE NoCut

create_horizontal_cut_svg(doc, r, rows, dir) ==
    IF get_svg_dimensions(doc) = RaiseDims THEN RaiseCut
    ELSE LET paths == RegexPaths(doc.paths) IN
         IF Len(paths) < 3 THEN NoCut
         ELSE LET h_segments == SplitM(paths[1])
                  segment_index ==
                      IF dir = "above" /\ r > 0 THEN r - 1
                      ELSE IF dir = "below" /\ r < rows - 1 THEN r
                      ELSE -1
              IN  IF segment_index = -1 THEN NoCut
                  ELSE IF segment_index < Len(h_segments)
                      THEN CutSvg("h", segment_index, h_segments[segment_index + 1])
                  ELSE NoCut

create_vertical_cut_svg(doc, c, cols, dir) ==
    IF get_svg_dimensions(doc) = RaiseDims THEN RaiseCut
    ELSE LET paths == RegexPaths(doc.paths) IN
         IF Len(paths) < 3 THEN NoCut
         ELSE LET v_segments == SplitM(paths[2])
                  segment_index ==
                      IF dir = "left" /\ c > 0 THEN c - 1
                      ELSE IF dir = "right" /\ c < cols - 1 THEN c
                      ELSE -1
              IN  IF segment_index = -1 THEN NoCut
                  ELSE IF segment_index < Len(v_segments)
                      THEN CutSvg("v", segment_index, v_segments[segment_index + 1])
                  ELSE NoCut

create_border_cut_svg(doc) ==
    IF get_svg_dimensions(doc) = RaiseDims THEN RaiseCut
    ELSE LET paths == RegexPaths(doc.paths) IN
         IF Len(paths) < 3 THEN NoCut
         ELSE CutSvg("border", 0, paths[3])

\* create_cut_masks: the directions that get a raster, in the order the
\* dictionary receives them, each with the cut it rasterizes.
create_cut_masks(doc, r, c, rows, cols) ==
    LET entry(dir, svg) ==
            IF svg.kind = "none" THEN <<>> ELSE <<<<dir, svg>>>>
        above == create_horizontal_cut_svg(doc, r, rows, "above")
        below == create_horizontal_cut_svg(doc, r, rows, "below")
        left == create_vertical_cut_svg(doc, c, cols, "left")
        right == create_vertical_cut_svg(doc, c, cols, "right")
        border == IF r = 0 \/ r = rows - 1 \/ c = 0 \/ c = cols - 1
                  THEN create_border_cut_svg(doc) ELSE NoCut
    IN  IF above.kind = "raise" THEN [raised |-> TRUE, masks |-> <<>>]
        ELSE [raised |-> FALSE,
              masks |-> entry("above", above) \o entry("below", below)
                            \o entry("left", left) \o entry("right", right)
                            \o entry("border", border)]

(***************************************************************************)
(* Extractor: the directional reductions of a piece mask.  A cut point of  *)
(* -1 stands for None (the line holds no black pixel).                     *)
(***************************************************************************)
\* for y in range(...): if cut_line[y, x]: cut_point = y; break
RECURSIVE ScanColumn(_, _, _, _)
ScanColumn(raster, x, y, step) ==
    IF y < 0 \/ y >= img_height THEN -1
    ELSE IF <<x, y>> \in raster THEN y
    ELSE ScanColumn(raster, x, y + step, step)

\* for x in range(...): if cut_line[y, x]: cut_point = x; break
RECURSIVE ScanRow(_, _, _, _)
ScanRow(raster, y, x, step) ==
    IF x < 0 \/ x >= img_width THEN -1
    ELSE IF <<x, y>> \in raster THEN x
    ELSE ScanRow(raster, y, x + step, step)

\* for y in range(...): if cut_line[y, x]: points.append(y)
RECURSIVE CollectColumn(_, _, _, _)
CollectColumn(raster, x, y, step) ==
    IF y < 0 \/ y >= img_height THEN <<>>
    ELSE (IF <<x, y>> \in raster THEN <<y>> ELSE <<>>)
             \o CollectColumn(raster, x, y + step, step)

AboveCutPoint(raster, x) == ScanColumn(raster, x, 0, 1)

\* A faulty variant: the first black pixel met from the bottom.
BelowCutPointFirstMet(raster, x) == ScanColumn(raster, x, img_height - 1, -1)

BelowCutPoint(raster, x) ==
    LET cut_points == CollectColumn(raster, x, img_height - 1, -1)
    IN  IF cut_points = <<>> THEN -1 ELSE Min(Range(cut_points))

LeftCutPoint(raster, y) == ScanRow(raster, y, 0, 1)

RightCutPoint(raster, y) == ScanRow(raster, y, img_width - 1, -1)

BorderTopPoint(raster, x) ==
    LET border_points == CollectColumn(raster, x, 0, 1)
    IN  IF border_points = <<>> THEN -1 ELSE Max(Range(border_points))

\* discard_pixels[:cut_point, x] = True
AboveDiscard(raster) ==
    {p \in Pixels : LET cut_point == AboveCutPoint(raster, p[1])
                    IN  cut_point # -1 /\ p[2] < cut_point}

\* discard_pixels[cut_point:, x] = True
BelowDiscard(raster) ==
    {p \in Pixels : LET cut_point == BelowCutPoint(raster, p[1])
                    IN  cut_point # -1 /\ p[2] >= cut_point}

\* discard_pixels[y, :cut_point] = True
LeftDiscard(raster) ==
    {p \in Pixels : LET cut_point == LeftCutPoint(raster, p[2])
                    IN  cut_point # -1 /\ p[1] < cut_point}

\* A faulty variant: the cut column is kept.
RightDiscardAfterCut(raster) ==
    {p \in Pixels : LET cut_point == RightCutPoint(raster, p[2])
                    IN  cut_point # -1 /\ p[1] > cut_point}

\* discard_pixels[y, cut_point:] = True
RightDiscard(raster) ==
    {p \in Pixels : LET cut_point == RightCutPoint(raster, p[2])
                    IN  cut_point # -1 /\ p[1] >= cut_point}

\* piece_mask[:border_point, x] = 0
BorderTopDiscard(raster) ==
    {p \in Pixels : LET border_point == BorderTopPoint(raster, p[1])
                    IN  border_point # -1 /\ p[2] < border_point}

\* piece_mask[-5:, :] = 0, piece_mask[:, :5] = 0, piece_mask[:, -5:] = 0
BottomMargin == {p \in Pixels : p[2] >= img_height - Margin}
LeftMargin == {p \in Pixels : p[1] < Margin}
RightMargin == {p \in Pixels : p[1] >= img_width - Margin}

BorderDiscard(raster, r, c, rows, cols) ==
    (IF r = 0 THEN BorderTopDiscard(raster) ELSE {})
        \cup (IF r = rows - 1 THEN BottomMargin ELSE {})
        \cup (IF c = 0 THEN LeftMargin ELSE {})
        \cup (IF c = cols - 1 THEN RightMargin ELSE {})

\* The pixels one iteration of "for direction, mask_path in
\* cut_masks.items()" sets to 0 in piece_mask.
Discard(dir, raster, r, c, rows, cols) ==
    CASE dir = "above" -> AboveDiscard(raster)
      [] dir = "below" -> BelowDiscard(raster)
      [] dir = "left" -> LeftDiscard(raster)
      [] dir = "right" -> RightDiscard(raster)
      [] dir = "border" -> BorderDiscard(raster, r, c, rows, cols)
      [] OTHER -> {}

(***************************************************************************)
(* Extractor: allocation and piece assembly.                               *)
(***************************************************************************)
\* A faulty variant: the allocation map is not consulted.
ValidPixelsUnchecked(current_mask, alloc) == current_mask

\* A faulty variant: a mask that meets the allocation map claims nothing.
ValidPixelsAllOrNothing(current_mask, alloc) ==
    IF current_mask \cap alloc = {} THEN current_mask ELSE {}

\* valid_pixels = (current_mask > 0) & (allocation_map == 0)
ValidPixels(current_mask, alloc) == current_mask \ alloc

\* A faulty variant: only the pixels of the first claim are marked.
MarkAllocatedFirstOnly(alloc, valid_pixels) ==
    IF alloc = {} THEN valid_pixels ELSE alloc

\* A faulty variant: the claimed pixels are not marked.
MarkAllocatedForgets(alloc, valid_pixels) == alloc

\* A faulty variant: the map is overwritten by the claimed pixels.
MarkAllocatedOverwrites(alloc, valid_pixels) == valid_pixels

\* allocation_map[valid_pixels] = 1
MarkAllocated(alloc, valid_pixels) == alloc \cup valid_pixels

\* getbbox() of the masked image, padded and clamped; <<>> for None.  The
\* input image is taken to hold no fully transparent black pixel.
PaddedBBox(final_mask) ==
    IF final_mask = {} THEN <<>>
    ELSE LET xs == {p[1] : p \in final_mask}
             ys == {p[2] : p \in final_mask}
             lo(v) == IF v - Padding < 0 THEN 0 ELSE v - Padding
             hi(v, lim) == IF v + Padding > lim THEN lim ELSE v + Padding
         IN  <<lo(Min(xs)), lo(Min(ys)),
               hi(Max(xs) + 1, img_width), hi(Max(ys) + 1, img_height)>>

\* cropped_piece = piece_img.crop(bbox): an image is its size and the place
\* and size of what was pasted into it.
Crop(bbox) ==
    [width |-> bbox[3] - bbox[1], height |-> bbox[4] - bbox[2],
     x_offset |-> 0, y_offset |-> 0,
     pasted |-> <<bbox[3] - bbox[1], bbox[4] - bbox[2]>>]

\* max_piece_width and max_piece_height after the allocation loop.
MaxPieceWidth(images) ==
    Max({0} \cup {Crop(images[p]).width : p \in DOMAIN images})
MaxPieceHeight(images) ==
    Max({0} \cup {Crop(images[p]).height : p \in DOMAIN images})

\* A faulty variant: the offsets are rounded up.
center_and_resize_image_up(image, target_width, target_height) ==
    [width |-> target_width, height |-> target_height,
     x_offset |-> (target_width - image.width + 1) \div 2,
     y_offset |-> (target_height - image.height + 1) \div 2,
     pasted |-> <<image.width, image.height>>]

center_and_resize_image(image, target_width, target_height) ==
    [width |-> target_width, height |-> target_height,
     x_offset |-> (target_width - image.width) \div 2,
     y_offset |-> (target_height - image.height) \div 2,
     pasted |-> <<image.width, image.height>>]

\* The position after (row, col) in "for row in range(rows): for col in
\* range(cols)".
NextPos(r, c, cols) ==
    IF c + 1 < cols THEN <<r, c + 1>> ELSE <<r + 1, 0>>

(***************************************************************************)
(* Extractor: the runs checked.  The documents with an inner piece are run *)
(* on a one-row image, the one-row and one-column grids on the full image. *)
(***************************************************************************)
Image(w, h) == [ok |-> TRUE, width |-> w, height |-> h]
MissingImage == [ok |-> FALSE, width |-> 0, height |-> 0]

\* <<document, image, debug>>
AllocRuns ==
    ({<<ShapeDoc(g[1], g[2]), Image(MaxImgW, 1)>> : g \in InnerShapes}
         \X {FALSE})
        \cup (({<<d, Image(MaxImgW, 1)>> : d \in OtherDocs}
                   \cup {<<ShapeDoc(1, 1), MissingImage>>}) \X BOOLEAN)
CutRuns ==
    ({<<ShapeDoc(g[1], g[2]), Image(MaxImgW, MaxImgH)>> : g \in LineShapes}
         \X {FALSE})
        \cup ({<<TwoPathDoc, Image(MaxImgW, MaxImgH)>>} \X BOOLEAN)
BorderRuns ==
    {<<ShapeDoc(3, 2), Image(MaxImgW, MaxImgH)>>,
     <<BrokenDoc, Image(MaxImgW, MaxImgH)>>} \X {FALSE}

\* The documents and images of the runs with fixed-size output, and those
\* on which the run raises.
SaveRuns ==
    ({<<ShapeDoc(3, 3), Image(MaxImgW, 1)>>} \X {FALSE})
        \cup (({<<ShapeDoc(1, 2), Image(1, 1)>>, <<TwoPathDoc, Image(1, 1)>>,
                 <<BrokenDoc, Image(1, 1)>>, <<ShapeDoc(1, 1), MissingImage>>})
                  \X BOOLEAN)

\* None for output_width and output_height.
NoSize == -1

\* <<fixed_size, output_width, output_height>>
DefaultSizes == {<<FALSE, NoSize, NoSize>>}
FixedSizes ==
    {TRUE} \X {NoSize, 1, MaxTarget} \X {NoSize, MaxTarget}

EmptyMap == [p \in {} |-> {}]

\* d[key] = value
Put(d, key, value) ==
    [k \in DOMAIN d \cup {key} |-> IF k = key THEN value ELSE d[k]]

EStart(runs, sizes) ==
    /\ pc = "start"
    /\ \E run \in runs :
          svg_file = run[1][1] /\ input_image = run[1][2] /\ debug = run[2]
    /\ \E size \in sizes :
          fixed_size = size[1] /\ output_width = size[2] /\ output_height = size[3]
    /\ grid = <<>>
    /\ img_width = 0
    /\ img_height = 0
    /\ row = 0
    /\ col = 0
    /\ cut_masks = <<>>
    /\ direction = ""
    /\ cut_line = {}
    /\ discard_pixels = {}
    /\ piece_mask = {}
    /\ piece_masks = EmptyMap
    /\ allocation_map = {}
    /\ final_masks = EmptyMap
    /\ piece_images = EmptyMap
    /\ saved = EmptyMap
    /\ temp_dir = FALSE

EInit(runs) == EStart(runs, DefaultSizes)

cols == grid[1]
rows == grid[2]

\* Lines 344-356: the directories, then the grid; unpacking a result that
\* does not hold four values raises.  The directories are made before the
\* try block: when they cannot be made the caller gets the exception.
Begin ==
    /\ pc = "start"
    /\ \E dirs_made \in BOOLEAN :
          LET result == determine_grid_size(svg_file)
          IN  IF ~dirs_made
                  THEN temp_dir' = FALSE /\ grid' = grid /\ pc' = "raised"
              ELSE IF Len(result) = 4
                  THEN temp_dir' = TRUE /\ grid' = result /\ pc' = "open"
              ELSE temp_dir' = TRUE /\ grid' = grid /\ pc' = "except"
    /\ UNCHANGED <<gvars, size_args, svg_file, input_image, debug, img_width, img_height, row,
                   col, cut_masks, direction, cut_line, discard_pixels,
                   piece_mask, piece_masks, allocation_map, final_masks,
                   piece_images, saved>>

\* Lines 358-381.
OpenImage ==
    /\ pc = "open"
    /\ IF input_image.ok
           THEN /\ img_width' = input_image.width
                /\ img_height' = input_image.height
                /\ pc' = "masks"
           ELSE /\ UNCHANGED <<img_width, img_height>>
                /\ pc' = "except"
    /\ allocation_map' = {}
    /\ row' = 0
    /\ col' = 0
    /\ UNCHANGED <<gvars, size_args, svg_file, input_image, debug, grid, cut_masks, direction,
                   cut_line, discard_pixels, piece_mask, piece_masks,
                   final_masks, piece_images, saved, temp_dir>>

\* Lines 382-391: the cut masks of the piece at (row, col) and its fresh mask.
MaskPiece ==
    /\ pc = "masks"
    /\ LET made == create_cut_masks(svg_file, row, col, rows, cols)
       IN  IF made.raised
               THEN /\ pc' = "except"
                    /\ UNCHANGED <<cut_masks, piece_mask>>
               ELSE /\ pc' = "cuts"
                    /\ cut_masks' = made.masks
                    /\ piece_mask' = Pixels
    /\ UNCHANGED <<gvars, size_args, svg_file, input_image, debug, grid, img_width, img_height,
                   row, col, direction, cut_line, discard_pixels, piece_masks,
                   allocation_map, final_masks, piece_images, saved, temp_dir>>

\* Lines 394-511: one cut mask is loaded and applied.  The raster is what
\* the renderer wrote for the cut: any bitmap of the image's size.
ApplyCut ==
    /\ pc = "cuts"
    /\ cut_masks # <<>>
    /\ \E raster \in SUBSET Pixels :
          LET dir == Head(cut_masks)[1]
              discard == Discard(dir, raster, row, col, rows, cols)
          IN  /\ direction' = dir
              /\ cut_line' = raster
              /\ discard_pixels' = IF dir = "border" THEN discard_pixels
                                   ELSE discard
              /\ piece_mask' = piece_mask \ discard
    /\ cut_masks' = Tail(cut_masks)
    /\ UNCHANGED <<gvars, size_args, pc, svg_file, input_image, debug, grid, img_width,
                   img_height, row, col, piece_masks, allocation_map,
                   final_masks, piece_images, saved, temp_dir>>
\* Lines 513-514, and the step of the two loops: the mask is stored; after
\* the last piece the second pass starts.  The locals of the iteration are
\* dead from here on.
StoreMask ==
    /\ pc = "cuts"
    /\ cut_masks = <<>>
    /\ piece_masks' = Put(piece_masks, <<row, col>>, piece_mask)
    /\ LET pos == NextPos(row, col, cols)
       IN  IF pos[1] < rows
               THEN row' = pos[1] /\ col' = pos[2] /\ pc' = "masks"
               ELSE row' = 0 /\ col' = 0 /\ pc' = "alloc"
    /\ direction' = ""
    /\ cut_line' = {}
    /\ discard_pixels' = {}
    /\ piece_mask' = {}
    /\ UNCHANGED <<gvars, size_args, svg_file, input_image, debug, grid, img_width, img_height,
                   cut_masks, allocation_map, final_masks, piece_images,
                   saved, temp_dir>>

\* Lines 519-574: the piece at (row, col) claims its pixels; with debug on
\* its mask is written to the debug folder, which may fail.  After the
\* last piece the sizes of the fixed-size output are settled.
Allocate ==
    /\ pc = "alloc"
    /\ \E mask_written \in (IF debug THEN BOOLEAN ELSE {TRUE}) :
          LET current_mask == piece_masks[<<row, col>>]
              valid_pixels == ValidPixels(current_mask, allocation_map)
              bbox == PaddedBBox(valid_pixels)
              pos == NextPos(row, col, cols)
              last == mask_written /\ pos[1] >= rows
          IN  /\ final_masks' = Put(final_masks, <<row, col>>, valid_pixels)
              /\ allocation_map' = MarkAllocated(allocation_map, valid_pixels)
              /\ piece_images' = IF bbox = <<>> \/ ~mask_written THEN piece_images
                                 ELSE Put(piece_images, <<row, col>>, bbox)
              /\ IF ~mask_written
                     THEN row' = row /\ col' = col /\ pc' = "except"
                 ELSE IF pos[1] < rows
                     THEN row' = pos[1] /\ col' = pos[2] /\ pc' = "alloc"
                 ELSE row' = 0 /\ col' = 0 /\ pc' = "save"
              /\ output_width' =
                     IF last /\ fixed_size /\ output_width = NoSize
                         THEN MaxPieceWidth(piece_images') ELSE output_width
              /\ output_height' =
                     IF last /\ fixed_size /\ output_height = NoSize
                         THEN MaxPieceHeight(piece_images') ELSE output_height
    /\ UNCHANGED <<gvars, fixed_size, svg_file, input_image, debug, grid, img_width, img_height,
                   cut_masks, direction, cut_line, discard_pixels, piece_mask,
                   piece_masks, saved, temp_dir>>

\* Lines 577-590: the piece at (row, col) is written if it has an image;
\* writing the file may fail.
SavePiece ==
    /\ pc = "save"
    /\ \E written \in (IF <<row, col>> \in DOMAIN piece_images
                          THEN BOOLEAN ELSE {TRUE}) :
          LET pos == NextPos(row, col, cols)
              cropped_piece == Crop(piece_images[<<row, col>>])
              piece_img == IF fixed_size
                               THEN center_and_resize_image(cropped_piece,
                                        output_width, output_height)
                               ELSE cropped_piece
          IN  /\ saved' = IF <<row, col>> \in DOMAIN piece_images /\ written
                              THEN Put(saved, <<row, col>>, piece_img)
                              ELSE saved
              /\ IF ~written
                     THEN row' = row /\ col' = col /\ pc' = "except"
                 ELSE IF pos[1] < rows
                     THEN row' = pos[1] /\ col' = pos[2] /\ pc' = "save"
                 ELSE row' = row /\ col' = col /\ pc' = "finally"
    /\ UNCHANGED <<gvars, size_args, svg_file, input_image, debug, grid, img_width, img_height,
                   cut_masks, direction, cut_line, discard_pixels, piece_mask,
                   piece_masks, allocation_map, final_masks, piece_images,
                   temp_dir>>

\* A faulty variant: the handler leaves debug as it was.
ExceptDebugKept ==
    /\ pc = "except"
    /\ pc' = "finally"
    /\ UNCHANGED <<gvars, size_args, svg_file, input_image, debug, grid,
                   img_width, img_height, row, col, cut_masks, direction,
                   cut_line, discard_pixels, piece_mask, piece_masks,
                   allocation_map, final_masks, piece_images, saved, temp_dir>>

\* Lines 600-605: the handler of the try block.
Except ==
    /\ pc = "except"
    /\ debug' = TRUE
    /\ pc' = "finally"
    /\ UNCHANGED <<gvars, size_args, svg_file, input_image, grid, img_width, img_height, row,
                   col, cut_masks, direction, cut_line, discard_pixels,
                   piece_mask, piece_masks, allocation_map, final_masks,
                   piece_images, saved, temp_dir>>

\* Lines 607-612.
Finally ==
    /\ pc = "finally"
    /\ temp_dir' = IF ~debug THEN FALSE ELSE temp_dir
    /\ pc' = "done"
    /\ UNCHANGED <<gvars, size_args, svg_file, input_image, debug, grid, img_width, img_height,
                   row, col, cut_masks, direction, cut_line, discard_pixels,
                   piece_mask, piece_masks, allocation_map, final_masks,
                   piece_images, saved>>

ENext ==
    \/ Begin
    \/ OpenImage
    \/ MaskPiece
    \/ ApplyCut
    \/ StoreMask
    \/ Allocate
    \/ SavePiece
    \/ Except
    \/ Finally

(***************************************************************************)
(* Generator: the sequence source.  SinTable[s + 1] is                     *)
(* floor(1000 * (x - floor(x))) for x = sin(s) * 10000: the value random() *)
(* returns at seed s, in thousandths.  No tabulated value but that of seed *)
(* 0 (which is 0) is a whole number of thousandths, so r > 0.5 is          *)
(* SinTable[s + 1] >= 500.  Jitter values e, a, b, c, d and the tab size t *)
(* are in units of 1/100000, coordinates in hundredths.                    *)
(***************************************************************************)
SinTable ==
    << 0, 709, 974, 200, 975, 757, 845, 865, 582, 184, 788,  97, 270, 670,  73, 878,
       966,  25, 127, 772, 452, 556, 486, 795, 216, 482, 584, 759,  57, 661, 683, 623,
       266, 118, 826, 173, 211, 618, 685, 953, 131, 773, 784, 252,  19,  35, 883, 731,
       453, 473, 251, 291, 275, 251, 109, 448, 489, 647, 726, 380, 893, 822, 193, 557,
       260, 286, 488, 800, 723, 151, 906, 546, 233, 280, 537, 183,  76, 201, 784, 873,
       113, 120, 287, 644, 903, 243, 415, 821, 983, 694, 966, 875, 339, 178, 480, 617,
       877,  77, 181, 931, 343, 257, 267, 886, 775, 647, 574, 817, 185, 426, 573, 485,
        43, 180, 803, 353, 613,  20, 478, 958, 111, 152, 131, 965, 130, 595, 908, 300,
       377, 266, 940, 966, 835, 657, 248, 686, 667, 855, 477, 801, 396, 713,  49, 546,
       784, 451, 691, 440, 666, 513, 235, 498, 205,   5, 796, 880, 153, 514, 240, 197,
       252, 922, 496, 898, 327, 972, 915, 498, 267,   1, 494, 908, 591, 894, 380, 654,
       522, 897, 753, 221, 473, 485, 189, 804, 843, 211, 760, 289, 763, 179, 992,  85,
       616, 434, 136, 546, 300,  58, 214,  11,  27,  97, 184,  97, 203,  24, 580, 949,
       679, 666, 185, 521, 529, 293, 994, 456, 584, 183, 754, 852, 987, 387, 508, 534,
       790,  51, 561, 585, 230, 623, 357, 158, 232, 392, 166, 866, 679, 421, 238, 906,
       451, 617, 880, 906, 637, 874, 599,  71, 521, 368, 719,  61, 122, 237, 988,  83,
       919, 428, 356, 931, 397, 187,  82, 528, 174, 101, 540, 681, 649, 531, 540, 108,
       569,   1, 885, 146, 143,  43, 210, 827, 905, 485, 502, 525, 639, 715, 852, 590,
       956, 789, 456, 142, 259, 990, 900, 180, 612, 690, 376, 232, 441, 359, 528, 325,
        68, 960, 382, 646,  30,  13, 876, 717,  85, 905,  70, 332, 873, 397, 387, 250,
       445,  82, 122,  15, 347, 637, 886, 348, 847, 389, 183,  88, 956, 788, 721, 329,
       474, 928, 108, 255, 107,  32, 396,  16,  96,  41, 459, 626, 638, 555, 671, 172,
       498,  99, 546, 698, 127, 151,  98, 221, 157, 865, 906, 461,  89, 464, 900, 474,
        56, 885, 350, 321,  57, 673, 929, 424, 608, 814, 364, 655, 218, 220, 328, 232,
       564, 269, 100, 481, 885, 428,  99, 827, 150,  26, 965,  69, 524, 336, 580, 679,
       806, 246, 567, 739, 435, 457, 484, 773,  25, 140, 545, 252,  81, 237, 852, 393,
       255, 603, 145, 621, 882, 812, 355, 144, 548, 902, 546,  57, 941, 410, 538, 675,
       807, 474, 396, 919, 645, 425, 280, 301,  52, 700,   6, 715, 152, 168, 424, 849,
       725, 227, 162, 176, 201,  65,  56, 396, 473, 701, 349, 509, 425, 218, 886, 701,
       747, 727, 665, 818, 519,   9, 744, 678, 197, 464, 761, 642, 862, 129, 302, 897,
       167, 807, 629, 831,  29, 170, 857, 863, 193, 891, 613, 516,  43, 229, 982, 663,
       567, 193, 436, 953, 281, 282, 798, 617, 553, 553, 205, 686, 172, 504, 266, 704,
       184, 576, 905,  41, 292, 441, 819, 429,  47, 348, 767, 755, 757, 222,  26, 621,
       399, 725, 165, 176, 957, 391,  79, 706, 408, 515, 983, 221,  70, 480, 687, 971,
       556, 987, 156, 665, 627, 648, 159, 596, 124,  86, 130, 826, 601, 637,  11,  91,
       185, 351, 766,  81, 358,  81, 741, 488, 462, 724, 484, 631, 109, 345, 962, 712,
       472, 640, 766, 386, 838, 142, 205, 839, 660, 879, 813, 499, 345, 818, 379, 600,
       635, 542, 800, 450, 569, 419, 230, 211, 824, 226,  41, 775, 838, 207, 653, 642,
       793, 279, 176,  92, 324, 364,  13, 823, 104,  12, 283, 525, 763, 613, 619, 521,
       353, 162, 686, 505, 284, 348, 819, 586, 698, 779, 420, 372, 566, 275, 183, 267 >>

Rand(seed) == SinTable[seed + 1]

\* rt = [self, py]: the object and the module-level generator.
\* A faulty variant: the value is drawn from the module-level generator.
randomShared(rt) ==
    [value |-> Rand(rt.py.seed + rt.py.drawn),
     rt |-> [rt EXCEPT !.py.drawn = @ + 1]]

\* x = math.sin(self.seed) * 10000; self.seed += 1; return x - math.floor(x)
random(rt) ==
    [value |-> Rand(rt.self.seed), rt |-> [rt EXCEPT !.self.seed = @ + 1]]

\* min_val + r * (max_val - min_val)
uniform(rt, min_val, max_val) ==
    LET r == random(rt)
    IN  [value |-> min_val + (r.value * (max_val - min_val)) \div 1000,
         rt |-> r.rt]

\* self.random() > 0.5
rbool(rt) ==
    LET r == random(rt) IN [value |-> r.value >= 500, rt |-> r.rt]

\* A faulty variant: the sign is changed when the flip changes.
NextAOnChange(flip, flip_old, e) == IF flip # flip_old THEN -e ELSE e

\* -self.e if self.flip == flip_old else self.e
NextA(flip, flip_old, e) == IF flip = flip_old THEN -e ELSE e

next(rt) ==
    LET j == rt.self.j
        flip_old == rt.self.flip
        f == rbool(rt)
        a == NextA(f.value, flip_old, rt.self.e)
        b == uniform(f.rt, -j, j)
        c == uniform(b.rt, -j, j)
        d == uniform(c.rt, -j, j)
        e == uniform(d.rt, -j, j)
    IN  [e.rt EXCEPT !.self.flip = f.value, !.self.a = a, !.self.b = b.value,
                     !.self.c = c.value, !.self.d = d.value,
                     !.self.e = e.value]

\* A faulty variant: e is not drawn.
firstWithoutDraw(rt) == next(rt)

first(rt) ==
    LET e == uniform(rt, -rt.self.j, rt.self.j)
    IN  next([e.rt EXCEPT !.self.e = e.value])

(***************************************************************************)
(* Generator: the curve.  sl and sw are quotients <<numerator,             *)
(* denominator>>; a coordinate is rounded to hundredths (round half up on  *)
(* the exact value).                                                       *)
(***************************************************************************)
One == 100000
Offset == 0

RoundDiv(n, d) == (2 * n + d) \div (2 * d)

sl(o) == IF o.vertical THEN <<o.height, o.yn>> ELSE <<o.width, o.xn>>
sw(o) == IF o.vertical THEN <<o.width, o.xn>> ELSE <<o.height, o.yn>>

\* Where (ol + sl * v) * 100 is, in exact arithmetic, halfway between two
\* integers, the result of round() is decided by the error of the double
\* arithmetic.  For sl = 5 / 24 and v in {0.0, 0.2, 0.8, 1.0} these are the
\* cases, as <<index, v, round((ol + sl * v) * 100)>>.
HalfwayL ==
    { <<1, 80000, 38>>, <<2, One, 62>>, <<3, 0, 62>>, <<4, 20000, 88>>,
      <<7, 80000, 163>>, <<8, One, 188>>, <<9, 0, 188>>, <<10, 20000, 212>>,
      <<13, 80000, 288>>, <<14, One, 313>>, <<15, 0, 312>>, <<16, 20000, 338>>,
      <<19, 80000, 412>>, <<20, One, 438>>, <<21, 0, 438>>, <<22, 20000, 463>> }

\* round((self.ol() + self.sl() * v) * 100) / 100
l(o, v) ==
    LET index == IF o.vertical THEN o.yi ELSE o.xi
        halfway == {t \in HalfwayL : sl(o) = <<5, 24>> /\ t[1] = index /\ t[2] = v}
    IN  IF halfway # {} THEN (CHOOSE t \in halfway : TRUE)[3]
        ELSE 100 * Offset
                 + RoundDiv(sl(o)[1] * (index * One + v), sl(o)[2] * 1000)

\* A faulty variant: the multiplier is applied to the offset as well.
wAllFlipped(o, v) ==
    LET index == IF o.vertical THEN o.xi ELSE o.yi
        multiplier == IF o.flip THEN -1 ELSE 1
    IN  100 * Offset
            + RoundDiv(sw(o)[1] * (index * One + v) * multiplier, sw(o)[2] * 1000)

\* round((self.ow() + self.sw() * v * multiplier) * 100) / 100
w(o, v) ==
    LET index == IF o.vertical THEN o.xi ELSE o.yi
        multiplier == IF o.flip THEN -1 ELSE 1
    IN  100 * Offset
            + RoundDiv(sw(o)[1] * (index * One + v * multiplier), sw(o)[2] * 1000)

p0l(o) == l(o, 0)
p0w(o) == w(o, 0)
p1l(o) == l(o, 20000)
p1w(o) == w(o, o.a)
p2l(o) == l(o, 50000 + o.b + o.d)
p2w(o) == w(o, -o.t + o.c)
p3l(o) == l(o, 50000 - o.t + o.b)
p3w(o) == w(o, o.t + o.c)
p4l(o) == l(o, 50000 - 2 * o.t + o.b - o.d)
p4w(o) == w(o, 3 * o.t + o.c)
p5l(o) == l(o, 50000 + 2 * o.t + o.b - o.d)
p5w(o) == w(o, 3 * o.t + o.c)
p6l(o) == l(o, 50000 + o.t + o.b)
p6w(o) == w(o, o.t + o.c)
p7l(o) == l(o, 50000 + o.b + o.d)
p7w(o) == w(o, -o.t + o.c)
p8l(o) == l(o, 80000)
p8w(o) == w(o, o.e)
p9l(o) == l(o, One)
p9w(o) == w(o, 0)

\* The text a cell adds to the path: horizontal dividers write length
\* before width, vertical dividers width before length.
MoveTo(o) ==
    IF o.vertical THEN <<"M", p0w(o), p0l(o)>> ELSE <<"M", p0l(o), p0w(o)>>

CellCurves(o) ==
    IF o.vertical
        THEN << <<"C", p1w(o), p1l(o), p2w(o), p2l(o), p3w(o), p3l(o)>>,
                <<"C", p4w(o), p4l(o), p5w(o), p5l(o), p6w(o), p6l(o)>>,
                <<"C", p7w(o), p7l(o), p8w(o), p8l(o), p9w(o), p9l(o)>> >>
        ELSE << <<"C", p1l(o), p1w(o), p2l(o), p2w(o), p3l(o), p3w(o)>>,
                <<"C", p4l(o), p4w(o), p5l(o), p5w(o), p6l(o), p6w(o)>>,
                <<"C", p7l(o), p7w(o), p8l(o), p8w(o), p9l(o), p9w(o)>> >>

gen_db(o) ==
    LET r == o.corner_radius
        x0 == 100 * Offset
        x1 == 100 * (Offset + o.width)
        y1 == 100 * (Offset + o.height)
    IN  << <<"M", x0 + r, x0>>,
           <<"L", x1 - r, x0>>, <<"A", r, r, 0, 0, 1, x1, x0 + r>>,
           <<"L", x1, y1 - r>>, <<"A", r, r, 0, 0, 1, x1 - r, y1>>,
           <<"L", x0 + r, y1>>, <<"A", r, r, 0, 0, 1, x0, y1 - r>>,
           <<"L", x0, x0 + r>>, <<"A", r, r, 0, 0, 1, x0 + r, x0>> >>

TabState(o) ==
    [seed |-> o.seed, a |-> o.a, b |-> o.b, c |-> o.c, d |-> o.d, e |-> o.e,
     flip |-> o.flip]

(***************************************************************************)
(* Generator: construction and generate_svg(), one action per step of its  *)
(* loops.                                                                  *)
(***************************************************************************)
Gens == {1, 2}

\* The calls made on each object: repeated calls on the first (for the
\* grids within MaxN), one on the second.
Calls(g) == IF g = 1 /\ self[g].xn <= MaxN THEN MaxCalls ELSE 1

ArgSets ==
    [width : {100}, height : {50}, xn : 1 .. MaxN, yn : 1 .. MaxN,
     tab_size : {20}, jitter : {4}, seed : 0 .. MaxSeed, corner_radius : {2}]

\* A grid whose cell boundaries fall halfway between two hundredths.
HalfwayArgSets ==
    [width : {5}, height : {50}, xn : {24}, yn : {2},
     tab_size : {20}, jitter : {4}, seed : 0 .. MaxSeed, corner_radius : {2}]

\* __init__
NewObject(args) ==
    [width |-> args.width, height |-> args.height, xn |-> args.xn,
     yn |-> args.yn, t |-> args.tab_size * 500, j |-> args.jitter * 1000,
     seed |-> args.seed, corner_radius |-> args.corner_radius * 100,
     a |-> 0, b |-> 0, c |-> 0, d |-> 0, e |-> 0, flip |-> FALSE,
     xi |-> 0, yi |-> 0, vertical |-> FALSE]

\* random.seed(x)
Seeded(x) == [seed |-> x, drawn |-> 0]

\* seed0 is the seed a call starts from, the argument of random.seed.
IdleCall == [pc |-> "idle", k |-> 0, i |-> 0, path |-> <<>>, paths |-> <<>>,
             svg |-> <<>>, seed0 |-> 0]

GStart(args) ==
    /\ self = [g \in Gens |-> NewObject(args)]
    /\ call = [g \in Gens |-> IdleCall]
    /\ returned = [g \in Gens |-> <<>>]
    /\ tabs = [g \in Gens |-> <<>>]
    /\ py_random = Seeded(args.seed)

GInit == \E args \in ArgSets : GStart(args)

\* Lines 179-186 and 115-116: the seed statements, the header, and the
\* start of gen_dh.
GenerateSvg(g) ==
    /\ call[g].pc = "idle"
    /\ Len(returned[g]) < Calls(g)
    /\ py_random' = Seeded(self[g].seed)
    /\ self' = [self EXCEPT ![g].seed = self[g].seed, ![g].vertical = FALSE]
    /\ call' = [call EXCEPT ![g] = [IdleCall EXCEPT !.pc = "dh", !.k = 1,
                                                    !.seed0 = self[g].seed]]
    /\ tabs' = [tabs EXCEPT ![g] = Append(@, <<>>)]
    /\ UNCHANGED <<evars, returned>>

\* The number of sub-paths of the divider being generated is one less than
\* Outer, the number of cells of each is Inner.
Outer(g) == IF call[g].pc \in {"dh", "dh_cells"} THEN self[g].yn ELSE self[g].xn
Inner(g) == IF call[g].pc \in {"dh", "dh_cells"} THEN self[g].xn ELSE self[g].yn

\* Lines 118-121 and 141-144: the head of a sub-path.
SubPath(g) ==
    /\ call[g].pc \in {"dh", "dv"}
    /\ call[g].k < Outer(g)
    /\ LET o == IF call[g].pc = "dh"
                    THEN [self[g] EXCEPT !.yi = call[g].k, !.xi = 0]
                    ELSE [self[g] EXCEPT !.xi = call[g].k, !.yi = 0]
           rt == first([self |-> o, py |-> py_random])
       IN  /\ self' = [self EXCEPT ![g] = rt.self]
           /\ py_random' = rt.py
           /\ call' = [call EXCEPT
                  ![g].pc = IF call[g].pc = "dh" THEN "dh_cells" ELSE "dv_cells",
                  ![g].i = 0,
                  ![g].path = <<MoveTo(rt.self)>>]
    /\ UNCHANGED <<evars, returned, tabs>>

\* Lines 123-132 and 146-155: one cell of a sub-path; after the last cell
\* the sub-path is appended to paths.
Cell(g) ==
    /\ call[g].pc \in {"dh_cells", "dv_cells"}
    /\ LET o == IF call[g].pc = "dh_cells"
                    THEN [self[g] EXCEPT !.xi = call[g].i]
                    ELSE [self[g] EXCEPT !.yi = call[g].i]
           path == call[g].path \o CellCurves(o)
           rt == next([self |-> o, py |-> py_random])
           last == call[g].i + 1 >= Inner(g)
       IN  /\ self' = [self EXCEPT ![g] = rt.self]
           /\ py_random' = rt.py
           /\ tabs' = [tabs EXCEPT ![g][Len(tabs[g])] = Append(@, TabState(o))]
           /\ call' = [call EXCEPT
                  ![g].i = @ + 1,
                  ![g].path = IF last THEN <<>> ELSE path,
                  ![g].paths = IF last THEN @ \o path ELSE @,
                  ![g].k = IF last THEN @ + 1 ELSE @,
                  ![g].pc = IF ~last THEN @
                            ELSE IF @ = "dh_cells" THEN "dh" ELSE "dv"]
    /\ UNCHANGED <<evars, returned>>

\* Lines 134, 189-191 and 138-139: gen_dh returns, its path element is
\* written, gen_dv starts.
EndHorizontal(g) ==
    /\ call[g].pc = "dh"
    /\ call[g].k >= Outer(g)
    /\ self' = [self EXCEPT ![g].vertical = TRUE]
    /\ call' = [call EXCEPT
           ![g].pc = "dv", ![g].k = 1, ![g].paths = <<>>,
           ![g].svg = Append(@, PathElem("Black", TRUE, call[g].paths))]
    /\ UNCHANGED <<evars, returned, tabs, py_random>>

\* Lines 157 and 194-204: gen_dv returns, its path element and the border
\* are written, and the document is returned.
EndVertical(g) ==
    /\ call[g].pc = "dv"
    /\ call[g].k >= Outer(g)
    /\ LET o == self[g]
           svg == call[g].svg
                      \o << PathElem("Black", TRUE, call[g].paths),
                            PathElem("Black", TRUE, gen_db(o)) >>
       IN  returned' = [returned EXCEPT ![g] = Append(@,
               MkDoc(TRUE, TRUE, <<0, 0, o.width, o.height>>,
                     <<o.width, o.height>>, svg))]
    /\ call' = [call EXCEPT ![g] = IdleCall]
    /\ UNCHANGED <<evars, self, tabs, py_random>>

GNext ==
    \E g \in Gens :
        \/ GenerateSvg(g)
        \/ SubPath(g)
        \/ Cell(g)
        \/ EndHorizontal(g)
        \/ EndVertical(g)

(***************************************************************************)
(* The specifications: an extraction run, and the generator.               *)
(***************************************************************************)
GIdle ==
    /\ self = <<>>
    /\ call = <<>>
    /\ returned = <<>>
    /\ tabs = <<>>
    /\ py_random = Seeded(0)

EIdle ==
    /\ pc = "off"
    /\ svg_file = <<>>
    /\ input_image = MissingImage
    /\ debug = FALSE
    /\ fixed_size = FALSE
    /\ output_width = NoSize
    /\ output_height = NoSize
    /\ grid = <<>>
    /\ img_width = 0
    /\ img_height = 0
    /\ row = 0
    /\ col = 0
    /\ cut_masks = <<>>
    /\ direction = ""
    /\ cut_line = {}
    /\ discard_pixels = {}
    /\ piece_mask = {}
    /\ piece_masks = EmptyMap
    /\ allocation_map = {}
    /\ final_masks = EmptyMap
    /\ piece_images = EmptyMap
    /\ saved = EmptyMap
    /\ temp_dir = FALSE

AllocInit == EInit(AllocRuns) /\ GIdle
CutInit == EInit(CutRuns) /\ GIdle
BorderInit == EInit(BorderRuns) /\ GIdle
SaveInit == EStart(SaveRuns, DefaultSizes \cup FixedSizes) /\ GIdle
GenInit == GInit /\ EIdle
SeamInit == (\E args \in HalfwayArgSets : GStart(args)) /\ EIdle

Spec == AllocInit /\ [][ENext]_vars
CutSpec == CutInit /\ [][ENext]_vars
BorderSpec == BorderInit /\ [][ENext]_vars
SaveSpec == SaveInit /\ [][ENext]_vars
GenSpec == GenInit /\ [][GNext]_vars
SeamSpec == SeamInit /\ [][GNext]_vars

(***************************************************************************)
(* Properties.                                                             *)
(***************************************************************************)
\* p comes before q in row-major order.
Before(p, q) == p[1] < q[1] \/ (p[1] = q[1] /\ p[2] < q[2])

Earlier(p) == {q \in DOMAIN piece_masks : Before(q, p)}

PassDone ==
    /\ pc \in {"save", "except", "finally", "done"}
    /\ DOMAIN final_masks # {}
    /\ DOMAIN final_masks = DOMAIN piece_masks

\* C1: no-overlap.  No pixel is nonzero in the final masks of two distinct
\* pieces, during the allocation pass and after it, whatever rasters the
\* keep-masks were reduced by.
NoOverlap ==
    \A p, q \in DOMAIN final_masks :
        p # q => final_masks[p] \cap final_masks[q] = {}

\* The pass has ended on a generated 3 x 3 document and two keep-masks share
\* a pixel.
NoOverlapWitness ==
    /\ PassDone
    /\ svg_file = ShapeDoc(3, 3)
    /\ \E p, q \in DOMAIN piece_masks :
          p # q /\ piece_masks[p] \cap piece_masks[q] # {}

\* C2: the pieces are allocated in row-major order, the final mask of a
\* piece is its keep-mask less the allocation map as the piece finds it, and
\* so a pixel lies in the final mask of the first piece, in row-major order,
\* whose keep-mask holds it, and in no other.
RowMajorAllocation ==
    /\ [][pc = "alloc" =>
            /\ DOMAIN final_masks = Earlier(<<row, col>>)
            /\ final_masks' = Put(final_masks, <<row, col>>,
                                  piece_masks[<<row, col>>] \ allocation_map)
            /\ pc' = "alloc" =>
                   \/ col + 1 < cols /\ row' = row /\ col' = col + 1
                   \/ col + 1 = cols /\ row' = row + 1 /\ col' = 0]_vars
    /\ [](\A p \in DOMAIN final_masks :
              final_masks[p] =
                  piece_masks[p] \ UNION {piece_masks[q] : q \in Earlier(p)})

\* A pixel lies in three keep-masks and the first of the three pieces owns
\* it.
RowMajorAllocationWitness ==
    /\ PassDone
    /\ \E p, q, r \in DOMAIN piece_masks :
          /\ Before(p, q) /\ Before(q, r)
          /\ \E x \in piece_masks[p] \cap piece_masks[q] \cap piece_masks[r] :
                x \in final_masks[p] /\ Earlier(p) = {k \in Earlier(p) :
                                                         x \notin piece_masks[k]}

\* C3: a pixel marked in the allocation map stays marked at every step.
AllocationMonotonic == [][allocation_map \subseteq allocation_map']_vars

\* In the middle of the pass, with pixels allocated, the piece at hand keeps
\* one that is already allocated.
AllocationMonotonicWitness ==
    /\ pc = "alloc"
    /\ allocation_map # {}
    /\ piece_masks[<<row, col>>] \cap allocation_map # {}
    /\ piece_masks[<<row, col>>] \ allocation_map # {}

\* C6: with fewer than 3 path elements the run goes on, with the grid
\* 4 x 4 and the canvas 300 x 200, and does not abort.
FallbackContinues ==
    (pc # "start" /\ svg_file.xml_ok /\ Len(FindPaths(svg_file)) < 3) =>
        /\ pc # "except"
        /\ grid = <<DefaultGrid, DefaultGrid, DefaultWidth, DefaultHeight>>

\* The black rows of a column of the raster at hand.
BlackRows(x) == {y \in 0 .. (img_height - 1) : <<x, y>> \in cut_line}

SideMargins ==
    (IF row = rows - 1 THEN BottomMargin ELSE {})
        \cup (IF col = 0 THEN LeftMargin ELSE {})
        \cup (IF col = cols - 1 THEN RightMargin ELSE {})

\* C9: for a top-row piece the border branch leaves the mask the 'above'
\* branch leaves on the same raster (with the margins of the piece's other
\* outer edges).
BorderTopAsAbove ==
    [][(pc = "cuts" /\ cut_masks # <<>> /\ Head(cut_masks)[1] = "border"
            /\ row = 0) =>
           piece_mask' = piece_mask \ (AboveDiscard(cut_line') \cup SideMargins)]_vars

\* The canvas is cut by the single column x = k.
ColumnRaster(k) == {p \in Pixels : p[1] = k}

\* C10: on a grid of two pieces side by side, with the raster of a straight
\* cut at column k, 'right' leaves the left piece columns [0, k), 'left'
\* leaves the right piece columns [k, W); the two cover the image and do not
\* meet.
StraightVerticalCut ==
    \A k \in 1 .. (img_width - 1) :
        LET left_keep == {p \in Pixels : p[1] < k}
            right_keep == {p \in Pixels : p[1] >= k}
        IN  (direction \in {"left", "right"} /\ cols = 2 /\ rows = 1
                 /\ cut_line = ColumnRaster(k)) =>
                /\ direction = "right" => piece_mask = left_keep
                /\ direction = "left" => piece_mask = right_keep
                /\ left_keep \cup right_keep = Pixels
                /\ left_keep \cap right_keep = {}

\* The right piece of the two has been reduced by a straight cut.
StraightVerticalCutWitness ==
    /\ direction = "left"
    /\ col = 1
    /\ cols = 2
    /\ rows = 1
    /\ \E k \in 1 .. (img_width - 1) : cut_line = ColumnRaster(k)

\* The tab states logged for the first call on g.
FirstCallTabs(g) == IF tabs[g] = <<>> THEN <<>> ELSE tabs[g][1]

\* C4: two fresh objects with the same arguments return the same document,
\* after the same sequence of draws: their first documents are equal, and
\* so are the tab states (seed cursor and drawn values) of their first
\* calls, cell by cell.
GeneratorDeterminism ==
    \A g1, g2 \in Gens :
        /\ (returned[g1] # <<>> /\ returned[g2] # <<>>) =>
               returned[g1][1] = returned[g2][1]
        /\ \A i \in 1 .. Min({Len(FirstCallTabs(g1)), Len(FirstCallTabs(g2))}) :
               FirstCallTabs(g1)[i] = FirstCallTabs(g2)[i]

\* Both objects have returned a document with tabs on both dividers.
GeneratorDeterminismWitness ==
    /\ \A g \in Gens : returned[g] # <<>> /\ self[g].xn >= 2 /\ self[g].yn >= 2
    /\ Len(FirstCallTabs(1)) >= 4
    /\ Len(FirstCallTabs(2)) >= 4

\* C5: determine_grid_size reads from a document generate_svg returned the
\* xn, yn, width and height it was generated with, the grids of one row or
\* one column included.
GridRoundTrip ==
    \A g \in Gens :
        \A k \in 1 .. Len(returned[g]) :
            determine_grid_size(returned[g][k]) =
                <<self[g].xn, self[g].yn, self[g].width, self[g].height>>

\* A document of a grid with one column and several rows has been returned:
\* its vertical divider path is empty.
GridRoundTripWitness ==
    \E g \in Gens :
        /\ returned[g] # <<>>
        /\ self[g].xn = 1
        /\ self[g].yn > 1
        /\ returned[g][1].paths[2].d = <<>>

\* The value of e when next() is entered by the step of g: first() draws it
\* at the head of a sub-path.
EPrev(g) ==
    IF call[g].pc \in {"dh", "dv"}
        THEN uniform([self |-> self[g], py |-> py_random],
                     -self[g].j, self[g].j).value
        ELSE self[g].e

\* C7, as stated: next() sets a = -e_prev if the new flip differs from the
\* old one, and a = e_prev if the flip is unchanged.
TabContinuityAsStated ==
    [][\A g \in Gens :
           self'[g].seed # self[g].seed =>
               self'[g].a = IF self'[g].flip # self[g].flip
                                THEN -EPrev(g) ELSE EPrev(g)]_vars

\* C7, amended: next() sets a = -e_prev if the new flip equals the old one,
\* and a = e_prev if the flip changed.
TabContinuity ==
    [][\A g \in Gens :
           self'[g].seed # self[g].seed =>
               self'[g].a = IF self'[g].flip = self[g].flip
                                THEN -EPrev(g) ELSE EPrev(g)]_vars

\* next() has just been called after a cell with e # 0, the flip changed,
\* and a is the e of that cell.
TabContinuityWitness ==
    \E g \in Gens :
        /\ tabs[g] # <<>>
        /\ LET log == tabs[g][Len(tabs[g])]
           IN  /\ log # <<>>
               /\ self[g].seed = log[Len(log)].seed + 5
               /\ log[Len(log)].e # 0
               /\ log[Len(log)].flip # self[g].flip
               /\ self[g].a = log[Len(log)].e

\* The object as it draws the cell the call on g is at, and the end point
\* the document holds for the cell before it.
CurCell(g) ==
    IF call[g].pc = "dh_cells" THEN [self[g] EXCEPT !.xi = call[g].i]
    ELSE [self[g] EXCEPT !.yi = call[g].i]

EndPoint(g) ==
    LET last == call[g].path[Len(call[g].path)]
    IN  IF call[g].pc = "dh_cells" THEN [l |-> last[6], w |-> last[7]]
        ELSE [l |-> last[7], w |-> last[6]]

InCells(g) == call[g].pc \in {"dh_cells", "dv_cells"} /\ call[g].i >= 1

\* The boundary before the cell o draws lies, in exact arithmetic, halfway
\* between two hundredths.
Halfway(o) ==
    LET index == IF o.vertical THEN o.yi ELSE o.xi
        twice == 200 * sl(o)[1] * index
    IN  twice % sl(o)[2] = 0 /\ (twice \div sl(o)[2]) % 2 = 1

\* C11, as stated: the end point p9 of a cell and the start point p0 of the
\* next cell of the sub-path have the same width coordinate, which does not
\* depend on flip, and the same length coordinate.
NoSeamAsStated ==
    \A g \in Gens :
        InCells(g) =>
            LET o == CurCell(g)
            IN  /\ EndPoint(g).w = p0w(o)
                /\ p0w(o) = p0w([o EXCEPT !.flip = ~@])
                /\ EndPoint(g).l = p0l(o)

\* C11, amended: the end point p9 of a cell and the start point p0 of the
\* next cell have the same width coordinate, which does not depend on flip;
\* their length coordinates are equal unless the boundary lies halfway
\* between two hundredths, and differ by at most one hundredth then.
NoSeam ==
    \A g \in Gens :
        InCells(g) =>
            LET o == CurCell(g)
                gap == EndPoint(g).l - p0l(o)
            IN  /\ EndPoint(g).w = p0w(o)
                /\ p0w(o) = p0w([o EXCEPT !.flip = ~@])
                /\ gap \in {-1, 0, 1}
                /\ ~Halfway(o) => gap = 0

\* A cell has been drawn up to a boundary halfway between two hundredths,
\* and the next cell starts one hundredth off.
NoSeamWitness ==
    \E g \in Gens :
        /\ InCells(g)
        /\ Halfway(CurCell(g))
        /\ EndPoint(g).l # p0l(CurCell(g))

\* The image new_image has the size tw x th and holds a piece of pw x ph at
\* the offsets ((tw - pw) // 2, (th - ph) // 2), // rounding down.
Centered(new_image, pw, ph, tw, th) ==
    /\ new_image.width = tw
    /\ new_image.height = th
    /\ new_image.pasted = <<pw, ph>>
    /\ 2 * new_image.x_offset <= tw - pw
    /\ tw - pw <= 2 * new_image.x_offset + 1
    /\ 2 * new_image.y_offset <= th - ph
    /\ th - ph <= 2 * new_image.y_offset + 1

\* C12: center_and_resize_image returns a canvas of the target size with the
\* piece pasted at ((W - w) // 2, (H - h) // 2), for every target and piece
\* size, a piece larger than the target included; for 200 x 200 and a piece
\* of 80 x 60 the offset is (60, 70); and every file of a fixed-size run is
\* its cropped piece centred so in output_width x output_height.  The sizes
\* are enumerated once, where the run starts.
FixedSizeAssembly ==
    /\ pc = "start" =>
          \A pw, ph \in 1 .. (MaxTarget + 1) :
              \A tw, th \in 1 .. MaxTarget :
                  Centered(center_and_resize_image(Crop(<<0, 0, pw, ph>>), tw, th),
                           pw, ph, tw, th)
    /\ LET new_image == center_and_resize_image(Crop(<<0, 0, 80, 60>>), 200, 200)
       IN  /\ Centered(new_image, 80, 60, 200, 200)
           /\ <<new_image.x_offset, new_image.y_offset>> = <<60, 70>>
    /\ fixed_size =>
           \A p \in DOMAIN saved :
               Centered(saved[p], Crop(piece_images[p]).width,
                        Crop(piece_images[p]).height, output_width, output_height)

\* A fixed-size run has written a piece whose width differs from the target
\* width by an odd amount, at a positive offset, and one on a canvas
\* narrower than the piece.
FixedSizeAssemblyWitness ==
    /\ fixed_size
    /\ \E p \in DOMAIN saved :
          \/ saved[p].x_offset >= 1 /\ (output_width - saved[p].pasted[1]) % 2 = 1
          \/ saved[p].x_offset < 0

\* A cut the piece at (r, c) needs is not produced.
NeededCutFails(r, c) ==
    \/ r > 0 /\ create_horizontal_cut_svg(svg_file, r, rows, "above").kind = "none"
    \/ r < rows - 1
           /\ create_horizontal_cut_svg(svg_file, r, rows, "below").kind = "none"
    \/ c > 0 /\ create_vertical_cut_svg(svg_file, c, cols, "left").kind = "none"
    \/ c < cols - 1
           /\ create_vertical_cut_svg(svg_file, c, cols, "right").kind = "none"

\* C13: a piece for which a needed cut is not produced gets no keep-mask and
\* no output image, and the other pieces are processed.
FailedPieceSkipped ==
    /\ \A p \in DOMAIN piece_masks \cup DOMAIN saved :
           ~NeededCutFails(p[1], p[2])
    /\ pc \in {"alloc", "save"} =>
           \A r \in 0 .. (rows - 1) : \A c \in 0 .. (cols - 1) :
               ~NeededCutFails(r, c) => <<r, c>> \in DOMAIN piece_masks

\* C14: an exception raised inside the try block reaches the handler and
\* not the caller; the handler and the finally block leave the temporary
\* directory and the files written in place; the temporary directory is
\* deleted only by the finally block of a run without exception and with
\* debug off; a file written is never removed.
ExceptionHandling ==
    /\ [][pc' = "raised" => pc = "start"]_vars
    /\ [][pc = "except" =>
            pc' = "finally" /\ debug' /\ temp_dir' = temp_dir /\ saved' = saved]_vars
    /\ [][pc = "finally" =>
            pc' = "done" /\ saved' = saved /\ temp_dir' = (temp_dir /\ debug)]_vars
    /\ [][(temp_dir /\ ~temp_dir') => (pc = "finally" /\ ~debug)]_vars
    /\ [][debug => debug']_vars
    /\ [][\A p \in DOMAIN saved :
              p \in DOMAIN saved' /\ saved'[p] = saved[p]]_vars
    /\ [](pc \in {"except", "finally"} => temp_dir)

\* Writing a piece has failed after another piece was written, with debug
\* off.
ExceptionHandlingWitness ==
    /\ pc = "except"
    /\ ~debug
    /\ DOMAIN saved # {}

\* The pixels of the keep-masks.
Kept == UNION {piece_masks[p] : p \in DOMAIN piece_masks}

Owners(x, masks) == {p \in DOMAIN masks : x \in masks[p]}

\* C15: after the allocation pass the allocation map is the union of the
\* keep-masks: a pixel of some keep-mask is in exactly one final mask, a
\* pixel of none is unowned.
CoverageIsUnion ==
    PassDone =>
        /\ allocation_map = Kept
        /\ \A x \in Pixels :
               Cardinality(Owners(x, final_masks)) = IF x \in Kept THEN 1 ELSE 0

\* The pass has ended with a pixel in no keep-mask and a pixel in several.
CoverageIsUnionWitness ==
    /\ PassDone
    /\ svg_file = ShapeDoc(3, 3)
    /\ Kept # Pixels
    /\ \E x \in Kept : Cardinality(Owners(x, piece_masks)) >= 2

\* The scan "for row in range(rows): for col in range(cols)" from pos on.
RECURSIVE ScanFrom(_)
ScanFrom(pos) ==
    IF pos[1] >= rows THEN <<>>
    ELSE <<pos>> \o ScanFrom(NextPos(pos[1], pos[2], cols))

Reverse(order) == [i \in 1 .. Len(order) |-> order[Len(order) + 1 - i]]

Swap(order, i, j) ==
    [k \in 1 .. Len(order) |->
        IF k = i THEN order[j] ELSE IF k = j THEN order[i] ELSE order[k]]

\* The scan orders tried: the reversed scan and the scans with two pieces
\* exchanged.
Orders ==
    LET scan == ScanFrom(<<0, 0>>)
    IN  {Reverse(scan)}
            \cup {Swap(scan, i, j) : i, j \in 1 .. Len(scan)}

\* The claim rule of the second pass, run over the keep-masks in order.
RECURSIVE AllocateInOrder(_, _, _)
AllocateInOrder(order, alloc, finals) ==
    IF order = <<>> THEN finals
    ELSE LET valid_pixels == ValidPixels(piece_masks[Head(order)], alloc)
         IN  AllocateInOrder(Tail(order), MarkAllocated(alloc, valid_pixels),
                             Put(finals, Head(order), valid_pixels))

\* C16: the claim rule run over the same keep-masks in the reversed scan
\* order, or with any two pieces exchanged, gives final masks that do not
\* overlap and cover the same pixels; run in row-major order it gives the
\* final masks of the pass.
AnyOrderNoOverlap ==
    PassDone =>
        /\ AllocateInOrder(ScanFrom(<<0, 0>>), {}, EmptyMap) = final_masks
        /\ \A order \in Orders :
               LET finals == AllocateInOrder(order, {}, EmptyMap)
               IN  /\ \A x \in Pixels : Cardinality(Owners(x, finals)) <= 1
                   /\ UNION {finals[p] : p \in DOMAIN finals} = allocation_map

\* The reversed scan gives a pixel of several keep-masks to another piece
\* than the row-major scan does.
AnyOrderNoOverlapWitness ==
    /\ PassDone
    /\ svg_file = ShapeDoc(3, 3)
    /\ \E x \in Pixels :
          /\ Cardinality(Owners(x, piece_masks)) >= 2
          /\ Owners(x, AllocateInOrder(Reverse(ScanFrom(<<0, 0>>)), {}, EmptyMap))
                 # Owners(x, final_masks)

\* The draws one generate_svg() makes on the grid of o.
DrawsOfCall(o) == (o.yn - 1) * (6 + 5 * o.xn) + (o.xn - 1) * (6 + 5 * o.yn)

\* A sequence source at seed s.
AtSeed(g, s) == [self |-> [self[g] EXCEPT !.seed = s], py |-> py_random]

StartsSubPath(g) ==
    call[g].pc \in {"dh", "dv"} /\ call'[g].pc \in {"dh_cells", "dv_cells"}
DrawsCell(g) ==
    call[g].pc \in {"dh_cells", "dv_cells"} /\ call'[g].i = call[g].i + 1
Returns(g) == call[g].pc = "dv" /\ call'[g].pc = "idle"

\* C17: random, uniform and rbool advance seed by exactly 1; a step that
\* starts a sub-path (first) advances it by 6, a step that draws a cell
\* (next) by 5, taking flip, b, c, d, e in that order, and no other step
\* changes it; when generate_svg() returns, seed is the seed the call
\* started from plus (yn-1)*(6+5*xn) + (xn-1)*(6+5*yn).
SeedAccounting ==
    /\ [](\A g \in DOMAIN self : \A s \in 0 .. MaxSeed :
             /\ random(AtSeed(g, s)).rt.self.seed = s + 1
             /\ uniform(AtSeed(g, s), -self[g].j, self[g].j).rt.self.seed = s + 1
             /\ rbool(AtSeed(g, s)).rt.self.seed = s + 1)
    /\ [][\A g \in Gens :
            /\ self'[g].seed - self[g].seed =
                   IF StartsSubPath(g) THEN 6 ELSE IF DrawsCell(g) THEN 5 ELSE 0
            /\ (StartsSubPath(g) \/ DrawsCell(g)) =>
                   LET s == self'[g].seed - 5
                       j == self[g].j
                   IN  /\ self'[g].flip = rbool(AtSeed(g, s)).value
                       /\ self'[g].b = uniform(AtSeed(g, s + 1), -j, j).value
                       /\ self'[g].c = uniform(AtSeed(g, s + 2), -j, j).value
                       /\ self'[g].d = uniform(AtSeed(g, s + 3), -j, j).value
                       /\ self'[g].e = uniform(AtSeed(g, s + 4), -j, j).value
            /\ Returns(g) =>
                   self'[g].seed = call[g].seed0 + DrawsOfCall(self[g])]_vars

\* A call on a grid with dividers both ways has returned, the seed moved on
\* by the draws of the call.
SeedAccountingWitness ==
    \E g \in Gens :
        /\ call[g].pc = "idle"
        /\ Len(returned[g]) = 1
        /\ self[g].xn >= 2
        /\ self[g].yn >= 2
        /\ self[g].seed >= DrawsOfCall(self[g])

\* C18: generate_svg() called twice on one object returns the same document
\* both times.
RepeatedCallSameDocument ==
    \A g \in Gens :
        Len(returned[g]) >= 2 => returned[g][2] = returned[g][1]

\* A sub-path of n cells: an M token and three C tokens per cell.
IsSubPath(segment, n) ==
    /\ Len(segment) = 1 + 3 * n
    /\ segment[1][1] = "M"
    /\ \A i \in 2 .. Len(segment) : segment[i][1] = "C"

\* C19: a document generated for xn columns and yn rows has yn-1 horizontal
\* sub-paths of xn cells and xn-1 vertical sub-paths of yn cells, three
\* cubic segments per cell; every piece of the inferred grid finds the
\* sub-paths it looks up (row-1 above, row below, col-1 left, col right),
\* pieces next to each other find the same sub-path, and no lookup is made
\* on the outer sides.  Each document is looked at when its call has
\* returned.
StructuralAgreement ==
    \A g \in Gens :
        (call[g].pc = "idle" /\ returned[g] # <<>>) =>
            LET doc == returned[g][Len(returned[g])]
                inferred == determine_grid_size(doc)
                paths == RegexPaths(doc.paths)
                h_segments == SplitM(paths[1])
                v_segments == SplitM(paths[2])
                above(r) == create_horizontal_cut_svg(doc, r, inferred[2], "above")
                below(r) == create_horizontal_cut_svg(doc, r, inferred[2], "below")
                left(c) == create_vertical_cut_svg(doc, c, inferred[1], "left")
                right(c) == create_vertical_cut_svg(doc, c, inferred[1], "right")
            IN  /\ Len(paths) = 3
                /\ Len(h_segments) = self[g].yn - 1
                /\ \A i \in 1 .. Len(h_segments) :
                       IsSubPath(h_segments[i], self[g].xn)
                /\ Len(v_segments) = self[g].xn - 1
                /\ \A i \in 1 .. Len(v_segments) :
                       IsSubPath(v_segments[i], self[g].yn)
                /\ \A r \in 0 .. (inferred[2] - 1) :
                       /\ above(r) = IF r = 0 THEN NoCut
                                     ELSE CutSvg("h", r - 1, h_segments[r])
                       /\ below(r) = IF r = inferred[2] - 1 THEN NoCut
                                     ELSE CutSvg("h", r, h_segments[r + 1])
                       /\ r < inferred[2] - 1 => below(r) = above(r + 1)
                /\ \A c \in 0 .. (inferred[1] - 1) :
                       /\ left(c) = IF c = 0 THEN NoCut
                                    ELSE CutSvg("v", c - 1, v_segments[c])
                       /\ right(c) = IF c = inferred[1] - 1 THEN NoCut
                                     ELSE CutSvg("v", c, v_segments[c + 1])
                       /\ c < inferred[1] - 1 => right(c) = left(c + 1)

\* A document with inner rows and columns has been returned.
StructuralAgreementWitness ==
    \E g \in Gens :
        /\ returned[g] # <<>>
        /\ self[g].xn >= 3
        /\ self[g].yn >= 3
        /\ Len(SplitM(returned[g][1].paths[1].d)) >= 2

====
